---- MODULE Spec2Model ----
(***************************************************************************)
(* Signaling and coordination layer of forma-multiplayer (src/src/app.tsx, *)
(* lines 1-502): presence heartbeat over a shared blob, leadership claim,  *)
(* WebRTC offer/answer exchange through the blob, and the broadcast loops. *)
(*                                                                         *)
(* Every client runs the same module.  A client's module-level signals and *)
(* variables are functions over Clients here.  A handler is modelled one   *)
(* synchronous segment (the code between two awaits on a macrotask) at a   *)
(* time, as a function on the client's local state record L; every signal  *)
(* write inside it re-runs the dependent effects, as @preact/signals does. *)
(***************************************************************************)
EXTENDS Integers, Sequences, FiniteSets, TLC

VARIABLES
    now,                     \* Date.now() / performance.now(), in ms
    store,                   \* the blob under storageKey: <<>> or <<document>>
    storageState,            \* signal: <<>> (undefined) or <<document>>
    clientState,             \* signal: the client's own record
    storagePollingState,     \* signal
    storageWriteState,       \* signal
    connectedLeaderClientId, \* signal
    answeredClientIds,       \* module array, kept as the set of its elements
    presenterConnections,    \* RTCPeerConnections made by createPresenterConnection,
                             \* in creation order (= presenterDataChannels order)
    receiverConnections,     \* RTCPeerConnections made by createReceiverConnection
    activeSender,            \* symbol | undefined (0)
    symbols,                 \* number of Symbol() values minted so far
    senderLoops,             \* running startCameraPositionSending / startSelectionSending
    lastSent,                \* lastSentCameraPosition and lastSentSelection
    pollLoop,                \* position of startStoragePolling
    leaderCalls,             \* invocations of addClientsForLeader
    fetchQueue,              \* p-limit: jobs waiting behind fetchLimit
    fetchActive,             \* p-limit: activeCount
    viewer,                  \* the host viewer's camera and selection
    received,                \* messages handed to onMessage
    iteration,               \* history: the latest iteration of each sender loop kind
    lastRead,                \* history: what the client's latest store read returned
    presents,                \* history: clicks on Present so far
    published,               \* history: the envelopes each client has handed to
                             \* setObject in its own record
    lastClaim,               \* history: whose leadership claim was stored last
    cameraType,              \* the host viewer's camera mode (CameraState.type)
    handlers                 \* invocations of onMessage for cameraPosition messages

vars == << now, store, storageState, clientState, storagePollingState,
           storageWriteState, connectedLeaderClientId, answeredClientIds,
           presenterConnections, receiverConnections, activeSender, symbols,
           senderLoops, lastSent, pollLoop, leaderCalls, fetchQueue,
           fetchActive, viewer, received, iteration, lastRead, presents,
           published, lastClaim,
                    cameraType, handlers >>

----------------------------------------------------------------------------
(* Program constants *)

Clients == {"a", "b", "c"}
Undefined == "undefined"

storageSchemaVersion == 8
LegacySchemaVersion == 2
FreshnessMs == 20000
KeepAliveMs == 4000
FetchLimit == 1

(* a.id.localeCompare(b.id) on the ids used here *)
Rank(id) == CASE id = "a" -> 1 [] id = "b" -> 2 [] id = "c" -> 3 [] OTHER -> 4

localeCompare(x, y) == Rank(x) - Rank(y)

----------------------------------------------------------------------------
(* Bounds of the model *)

MaxTime == 30000          \* the clock stops advancing here
MaxLen == 3               \* longest client list drawn as an input
MaxConnections == 2       \* presenter connections one client may hold
MaxPresents == 1          \* clicks on Present, all clients together
MaxSymbols == 2           \* sender tokens one client may mint

----------------------------------------------------------------------------
(* Data model: SharedState, its client records, session descriptions *)

NoSdp == [type |-> "none", from |-> Undefined, conn |-> 0]

Sdp(type, from, conn) == [type |-> type, from |-> from, conn |-> conn]

Envelope(value, target) == [value |-> value, targetClientId |-> target]

createBlankState ==
    [schemaVersion |-> storageSchemaVersion, clients |-> << >>,
     leaderClientId |-> Undefined]

createClientState(c, t) ==
    [id |-> c, lastSeen |-> t, name |-> c, offers |-> << >>, answers |-> << >>]

getState(L) ==
    IF L.storageState = << >> THEN createBlankState ELSE L.storageState[1]

(* Array.prototype.find over the matches of a filter (SelectSeq):
   <<>> when nothing matches, else <<first match>> *)
Find(matches) ==
    IF matches = << >> THEN << >> ELSE << Head(matches) >>

(* Array.prototype.sort((a, b) => a.id.localeCompare(b.id)): a stable sort *)
RECURSIVE InsertById(_, _)
InsertById(sorted, r) ==
    IF sorted = << >> THEN << r >>
    ELSE IF localeCompare(Head(sorted).id, r.id) <= 0
         THEN << Head(sorted) >> \o InsertById(Tail(sorted), r)
         ELSE << r >> \o sorted

RECURSIVE SortById(_)
SortById(s) ==
    IF s = << >> THEN << >>
    ELSE InsertById(SortById(SubSeq(s, 1, Len(s) - 1)), s[Len(s)])

(* A freshness test that keeps every record *)
IsFreshForever(r, t) == TRUE

IsFresh(r, t) == r.lastSeen >= t - FreshnessMs

(* A filter that keeps the client's own earlier record too *)
getFreshClients(c, state, t) ==
    SelectSeq(state.clients, LAMBDA r : IsFresh(r, t))

getOtherClients(c, state, t) ==
    SelectSeq(state.clients, LAMBDA r : r.id # c /\ IsFresh(r, t))

(* [...getOtherClients(state), clientState.value].sort(...) *)
compactClients(c, state, self, t) ==
    SortById(getOtherClients(c, state, t) \o << self >>)

----------------------------------------------------------------------------
(* A client's local state as one record, and back *)

Local(c) ==
    [storageState |-> storageState[c], clientState |-> clientState[c],
     storagePollingState |-> storagePollingState[c],
     storageWriteState |-> storageWriteState[c],
     connectedLeaderClientId |-> connectedLeaderClientId[c],
     answeredClientIds |-> answeredClientIds[c],
     presenterConnections |-> presenterConnections[c],
     receiverConnections |-> receiverConnections[c],
     activeSender |-> activeSender[c], symbols |-> symbols[c],
     senderLoops |-> senderLoops[c], pollLoop |-> pollLoop[c],
     leaderCalls |-> leaderCalls[c], fetchQueue |-> fetchQueue[c],
     fetchActive |-> fetchActive[c], lastRead |-> lastRead[c]]

Commit(c, L) ==
    /\ storageState' = [storageState EXCEPT ![c] = L.storageState]
    /\ clientState' = [clientState EXCEPT ![c] = L.clientState]
    /\ storagePollingState' = [storagePollingState EXCEPT ![c] = L.storagePollingState]
    /\ storageWriteState' = [storageWriteState EXCEPT ![c] = L.storageWriteState]
    /\ connectedLeaderClientId' =
           [connectedLeaderClientId EXCEPT ![c] = L.connectedLeaderClientId]
    /\ answeredClientIds' = [answeredClientIds EXCEPT ![c] = L.answeredClientIds]
    /\ presenterConnections' = [presenterConnections EXCEPT ![c] = L.presenterConnections]
    /\ receiverConnections' = [receiverConnections EXCEPT ![c] = L.receiverConnections]
    /\ activeSender' = [activeSender EXCEPT ![c] = L.activeSender]
    /\ symbols' = [symbols EXCEPT ![c] = L.symbols]
    /\ senderLoops' = [senderLoops EXCEPT ![c] = L.senderLoops]
    /\ pollLoop' = [pollLoop EXCEPT ![c] = L.pollLoop]
    /\ leaderCalls' = [leaderCalls EXCEPT ![c] = L.leaderCalls]
    /\ fetchQueue' = [fetchQueue EXCEPT ![c] = L.fetchQueue]
    /\ fetchActive' = [fetchActive EXCEPT ![c] = L.fetchActive]
    /\ lastRead' = [lastRead EXCEPT ![c] = L.lastRead]

isLeader(c) == getState(Local(c)).leaderClientId = c

(* The model's bounds on what one client may hold *)
Bounded(L, cap) ==
    /\ Len(L.presenterConnections) <= cap
    /\ L.symbols <= MaxSymbols

CommitBounded(c, L, cap) == Bounded(L, cap) /\ Commit(c, L)

----------------------------------------------------------------------------
(* The effects.  @preact/signals runs the effects subscribed to a written  *)
(* signal in the order they were created.                                  *)

(* A sender effect that never stops a running sender: its decision would   *)
(* depend on whether the client has led before.                            *)
senderEffectSticky(c, L) ==
    IF getState(L).leaderClientId = c /\ L.activeSender = 0
    THEN [L EXCEPT !.symbols = @ + 1, !.activeSender = L.symbols + 1,
             !.senderLoops = @ \cup
                 {[kind |-> "camera", sender |-> L.symbols + 1, pc |-> "sampling"],
                  [kind |-> "selection", sender |-> L.symbols + 1, pc |-> "sampling"]}]
    ELSE L

(* A sender effect that mints a token whenever the client leads, also when *)
(* one is active                                                           *)
senderEffectRestart(c, L) ==
    LET shouldBeSending == getState(L).leaderClientId = c
        L1 == IF ~shouldBeSending /\ L.activeSender # 0
              THEN [L EXCEPT !.activeSender = 0] ELSE L
        sender == L1.symbols + 1
    IN  IF shouldBeSending /\ sender <= MaxSymbols
        THEN [L1 EXCEPT !.symbols = sender, !.activeSender = sender,
                 !.senderLoops = @ \cup
                     {[kind |-> "camera", sender |-> sender, pc |-> "sampling"],
                      [kind |-> "selection", sender |-> sender, pc |-> "sampling"]}]
        ELSE L1

(* effect at 278-288: start and stop the sender loops.  Each loop passes   *)
(* its first while test at once and awaits its first sample.               *)
senderEffect(c, L) ==
    LET shouldBeSending == getState(L).leaderClientId = c
        L1 == IF ~shouldBeSending /\ L.activeSender # 0
              THEN [L EXCEPT !.activeSender = 0] ELSE L
        sender == L1.symbols + 1
    IN  IF shouldBeSending /\ L1.activeSender = 0
        THEN [L1 EXCEPT !.symbols = sender, !.activeSender = sender,
                 !.senderLoops = @ \cup
                     {[kind |-> "camera", sender |-> sender, pc |-> "sampling"],
                      [kind |-> "selection", sender |-> sender, pc |-> "sampling"]}]
        ELSE L1

(* createReceiverConnection, and the effect's setRemoteDescription(offer)  *)
createReceiverConnection(L, offer, leaderId) ==
    [L EXCEPT !.receiverConnections =
        Append(@, [remote |-> offer, leader |-> leaderId, pc |-> "gathering",
                   data |-> << >>])]

(* An offer watcher that follows the leader before an offer is there *)
offerWatcherEager(c, L) ==
    LET state == getState(L)
        leader == Find(SelectSeq(state.clients, LAMBDA r : r.id = state.leaderClientId))
        offer == IF leader = << >> THEN << >>
                 ELSE Find(SelectSeq(leader[1].offers, LAMBDA o : o.targetClientId = c))
    IN  IF leader = << >> THEN L
        ELSE IF L.connectedLeaderClientId = leader[1].id THEN L
        ELSE createReceiverConnection(
                 [L EXCEPT !.connectedLeaderClientId = leader[1].id],
                 IF offer = << >> THEN NoSdp ELSE offer[1].value, leader[1].id)

(* effect at 397-412: the follower's offer watcher, up to its await *)
offerWatcher(c, L) ==
    LET state == getState(L)
        leader == Find(SelectSeq(state.clients, LAMBDA r : r.id = state.leaderClientId))
        offer == IF leader = << >> THEN << >>
                 ELSE Find(SelectSeq(leader[1].offers, LAMBDA o : o.targetClientId = c))
    IN  IF leader = << >> THEN L
        ELSE IF offer = << >> THEN L
        ELSE IF L.connectedLeaderClientId = leader[1].id THEN L
        ELSE createReceiverConnection(
                 [L EXCEPT !.connectedLeaderClientId = leader[1].id],
                 offer[1].value, leader[1].id)

(* An answer effect without the answeredClientIds test *)
answerEffectUnguarded(c, L, k) ==
    LET conn == L.presenterConnections[k]
        recs == SelectSeq(getState(L).clients, LAMBDA r : r.id = conn.target)
        withAnswer == SelectSeq(recs, LAMBDA r :
                          \E i \in 1..Len(r.answers) : r.answers[i].targetClientId = c)
        answer == Head(SelectSeq(Head(withAnswer).answers,
                              LAMBDA e : e.targetClientId = c))
    IN  IF withAnswer = << >> THEN L
        ELSE [L EXCEPT !.presenterConnections[k].answer = answer.value,
                       !.answeredClientIds = @ \cup {conn.target}]

(* effect at 185-204, created by createPresenterConnection for connection k *)
answerEffect(c, L, k) ==
    LET conn == L.presenterConnections[k]
        recs == SelectSeq(getState(L).clients, LAMBDA r : r.id = conn.target)
        withAnswer == SelectSeq(recs, LAMBDA r :
                          \E i \in 1..Len(r.answers) : r.answers[i].targetClientId = c)
        answer == Head(SelectSeq(Head(withAnswer).answers,
                              LAMBDA e : e.targetClientId = c))
    IN  IF withAnswer = << >> \/ conn.target \in L.answeredClientIds THEN L
        ELSE [L EXCEPT !.presenterConnections[k].answer = answer.value,
                       !.answeredClientIds = @ \cup {conn.target}]

RECURSIVE answerEffects(_, _, _, _)
answerEffects(c, L, k, n) ==
    IF k > n THEN L ELSE answerEffects(c, answerEffect(c, L, k), k + 1, n)

(* createPresenterConnection 166-205: the connection, its data channel and *)
(* the first run of its answer effect; createOffer is then awaited.        *)
createPresenterConnection(c, L, targetClientId) ==
    LET k == Len(L.presenterConnections) + 1
        conn == [target |-> targetClientId, offer |-> NoSdp, answer |-> NoSdp,
                 open |-> FALSE, gathered |-> FALSE]
    IN  answerEffect(c, [L EXCEPT !.presenterConnections = Append(@, conn)], k)

(* addClientsForLeader 414-419 with a non-empty list: up to the first await *)
addClientsStart(c, L, ids, via) ==
    LET Await(L1) ==
            [L1 EXCEPT !.leaderCalls =
                Append(@, [clients |-> ids, i |-> 1, offers |-> << >>,
                           conn |-> Len(L1.presenterConnections), via |-> via,
                           pc |-> "createOffer", data |-> << >>])]
    IN  Await(createPresenterConnection(c, L, ids[1]))

(* effect at 437-449: leader peer detection *)
peerDetection(c, L) ==
    LET existingOffersTo ==
            {L.clientState.offers[i].targetClientId : i \in 1..Len(L.clientState.offers)}
        clients == SelectSeq(getState(L).clients,
                          LAMBDA r : r.id # c /\ r.id \notin existingOffersTo)
    IN  IF getState(L).leaderClientId # c THEN L
        ELSE IF Len(clients) > 0
             THEN addClientsStart(c, L, [i \in 1..Len(clients) |-> clients[i].id], "effect")
             ELSE L

(* storageState.value = doc *)
SetStorageState(c, L, doc) ==
    LET L0 == [L EXCEPT !.storageState = << doc >>]
        n == Len(L0.presenterConnections)
    IN  answerEffects(c, peerDetection(c, offerWatcher(c, senderEffect(c, L0))), 1, n)

(* clientState.value = rec: only peer detection reads clientState *)
SetClientState(c, L, rec) == peerDetection(c, [L EXCEPT !.clientState = rec])

----------------------------------------------------------------------------
(* Handlers, one synchronous segment each *)

(* An update that keeps the stamp the record already carries *)
updateClientStateKeepStamp(c, L, rec, t) ==
    LET Compact(L1) ==
            SetStorageState(c, L1,
                [getState(L1) EXCEPT
                    !.clients = compactClients(c, getState(L1), L1.clientState, t)])
    IN  Compact(SetClientState(c, L, [rec EXCEPT !.lastSeen = L.clientState.lastSeen]))

(* updateClientState 57-69; rec is {...clientState.value, ...updated} *)
updateClientState(c, L, rec, t) ==
    LET Compact(L1) ==
            SetStorageState(c, L1,
                [getState(L1) EXCEPT
                    !.clients = compactClients(c, getState(L1), L1.clientState, t)])
    IN  Compact(SetClientState(c, L, [rec EXCEPT !.lastSeen = t]))

(* writeSharedState 134-149, up to the await of setObject.  No caller      *)
(* passes an update.  The serialized document is the resulting cache.      *)
writeSharedStateStart(c, L, t) ==
    LET Serialize(L2, prev) ==
            SetStorageState(c, L2,
                [prev EXCEPT !.clients = compactClients(c, prev, L2.clientState, t)])
        Writing(L1) ==
            Serialize([L1 EXCEPT !.storageWriteState = "writing"], getState(L1))
    IN  Writing(updateClientState(c, L, L.clientState, t))

(* The asynchronous tasks of a client that read or write the store:        *)
(* the polling loop, a call of addClientsForLeader, the onicecandidate     *)
(* handler of a receiver connection.                                       *)
Task(kind, idx) == [kind |-> kind, idx |-> idx]

PollTask == Task("poll", 0)

TaskPc(L, task) ==
    CASE task.kind = "poll" -> L.pollLoop.pc
      [] task.kind = "leader" -> L.leaderCalls[task.idx].pc
      [] OTHER -> L.receiverConnections[task.idx].pc

TaskData(L, task) ==
    CASE task.kind = "poll" -> L.pollLoop.data
      [] task.kind = "leader" -> L.leaderCalls[task.idx].data
      [] OTHER -> L.receiverConnections[task.idx].data

SetTask(L, task, pc, data) ==
    CASE task.kind = "poll" -> [L EXCEPT !.pollLoop = [pc |-> pc, data |-> data]]
      [] task.kind = "leader" ->
            [L EXCEPT !.leaderCalls[task.idx].pc = pc,
                      !.leaderCalls[task.idx].data = data]
      [] OTHER ->
            [L EXCEPT !.receiverConnections[task.idx].pc = pc,
                      !.receiverConnections[task.idx].data = data]

Tasks(L) ==
    {PollTask} \cup {Task("leader", i) : i \in 1..Len(L.leaderCalls)}
               \cup {Task("answer", i) : i \in 1..Len(L.receiverConnections)}

(* The function handed to fetchLimit starts: lines 97-99 *)
fetchStart(L, task) ==
    SetTask([L EXCEPT !.storagePollingState = "loading", !.fetchActive = @ + 1],
            task, "fetching", TaskData(L, task))

(* A gate of unbounded capacity: every job starts at once *)
fetchLimitOpen(L, task) == fetchStart(L, task)

(* p-limit: run the job now if fewer than FetchLimit are active, else queue *)
fetchLimit(L, task) ==
    IF L.fetchActive < FetchLimit
    THEN fetchStart(L, task)
    ELSE SetTask([L EXCEPT !.fetchQueue = Append(@, task)], task, "fetchQueued",
                 TaskData(L, task))

(* p-limit: a job ended; the next queued job starts *)
fetchNext(L) ==
    LET L1 == [L EXCEPT !.fetchActive = @ - 1]
    IN  IF L1.fetchQueue # << >> /\ L1.fetchActive < FetchLimit
        THEN fetchStart([L1 EXCEPT !.fetchQueue = Tail(@)], Head(L1.fetchQueue))
        ELSE L1

(* History: while a task waits in refreshState, its data slot holds the    *)
(* cached document as it was when the task called refreshState.            *)
Remember(L, task, cache) == SetTask(L, task, TaskPc(L, task), cache)

(* refreshState 88-96 without an override *)
refreshStateStart(c, L, task) == fetchLimit(Remember(L, task, L.storageState), task)

(* refreshState 88-96 with override {leaderClientId: clientId} *)
refreshStateClaim(c, L, task) ==
    fetchLimit(Remember(SetStorageState(c, L, [getState(L) EXCEPT !.leaderClientId = c]),
                        task, L.storageState),
               task)

(* A read that takes the payload whatever its schemaVersion *)
fetchResponseAnyVersion(c, L, response, claim) ==
    LET L1 == IF response # << >>
              THEN SetStorageState(c, L,
                       IF claim THEN [response[1] EXCEPT !.leaderClientId = c]
                       ELSE response[1])
              ELSE L
    IN  [L1 EXCEPT !.storagePollingState = "idle",
                   !.lastRead = IF response = << >> THEN "absent"
                                ELSE IF response[1].schemaVersion = storageSchemaVersion
                                     THEN "document" ELSE "mismatch"]

(* refreshState 100-112: the response of getTextObject arrived.            *)
(* response is <<>> (no blob) or <<document>>; claim is the override.      *)
fetchResponse(c, L, response, claim) ==
    LET L1 == IF response # << >> /\ response[1].schemaVersion = storageSchemaVersion
              THEN SetStorageState(c, L,
                       IF claim THEN [response[1] EXCEPT !.leaderClientId = c]
                       ELSE response[1])
              ELSE L
    IN  [L1 EXCEPT !.storagePollingState = "idle",
                   !.lastRead = IF response = << >> THEN "absent"
                                ELSE IF response[1].schemaVersion = storageSchemaVersion
                                     THEN "document" ELSE "mismatch"]

(* addClientsForLeader 426-433: record the offers, claim leadership, read *)
addClientsPublish(c, L, k, offers, t) ==
    LET L1 == updateClientState(c, L,
                  [L.clientState EXCEPT !.offers = L.clientState.offers \o offers], t)
    IN  refreshStateClaim(c, L1, Task("leader", k))

(* onicecandidate 370-378 after its refreshState: publish the answer *)
publishAnswer(c, L, k, t) ==
    LET answer == Envelope(Sdp("answer", c, k), L.connectedLeaderClientId)
        L1 == updateClientState(c, L, [L.clientState EXCEPT !.answers = << answer >>], t)
    IN  writeSharedStateStart(c, L1, t)

(* What a task does when its refreshState has returned, up to setObject *)
afterRefresh(c, L, task, t) ==
    LET Hold(L1) == SetTask(L1, task, "writing", L1.storageState)
    IN  Hold(IF task.kind = "answer" THEN publishAnswer(c, L, task.idx, t)
             ELSE writeSharedStateStart(c, L, t))

----------------------------------------------------------------------------
(* Actions *)

(* The offers and answers of a record, each tagged with its list *)
Envelopes(rec) ==
    {[list |-> "offers", envelope |-> rec.offers[i]] : i \in 1..Len(rec.offers)}
        \cup {[list |-> "answers", envelope |-> rec.answers[i]] : i \in 1..Len(rec.answers)}

(* The records with id c in the client list of a document *)
OwnRecords(c, doc) == SelectSeq(doc.clients, LAMBDA r : r.id = c)

(* The envelopes c's own record carries in the document data handed to      *)
(* setObject (data is the task's <<document>>)                             *)
Handed(c, data) ==
    UNION {Envelopes(OwnRecords(c, data[1])[i]) : i \in 1..Len(OwnRecords(c, data[1]))}

Running(c) == pollLoop[c].pc # "off"

Others == << now, viewer, received, iteration, lastSent, cameraType, handlers >>

(* startStoragePolling 121-122: the 5000 ms timer fired, next iteration *)
PollWake(c) ==
    /\ pollLoop[c].pc = "sleep"
    /\ Commit(c, refreshStateStart(c, Local(c), PollTask))
    /\ UNCHANGED << store, presents, published, lastClaim, Others >>

(* A payload that JSON.parse (101) rejects, as the blob may hold it *)
Unparsable ==
    [schemaVersion |-> -1, clients |-> << >>, leaderClientId |-> Undefined]

Parses(response) == IF response = << >> THEN TRUE ELSE response[1] # Unparsable

(* getTextObject answered task's read; the task runs on to its setObject *)
FetchDone(c, task, cap) ==
    /\ Running(c)
    /\ task \in Tasks(Local(c))
    /\ TaskPc(Local(c), task) = "fetching"
    /\ Parses(store)
    /\ CommitBounded(c, afterRefresh(c,
               fetchNext(fetchResponse(c, Local(c), store, task.kind = "leader")),
               task, now), cap)
    /\ published' = [published EXCEPT ![c] = @ \cup Handed(c, TaskData(Local(c)', task))]
    /\ UNCHANGED << store, presents, lastClaim, Others >>

DoneCall ==
    [clients |-> << >>, i |-> 0, offers |-> << >>, conn |-> 0, via |-> "done",
     pc |-> "done", data |-> << >>]

(* setObject stored task's document: writeSharedState 150, and the caller  *)
(* goes on: the polling loop sleeps, the other tasks end.                  *)
WriteDone(c, task) ==
    /\ Running(c)
    /\ task \in Tasks(Local(c))
    /\ TaskPc(Local(c), task) = "writing"
    /\ store' = TaskData(Local(c), task)
    /\ LET L1 == [Local(c) EXCEPT !.storageWriteState = "idle"]
       IN  Commit(c,
               CASE task.kind = "poll" -> SetTask(L1, task, "sleep", << >>)
                 [] task.kind = "leader" -> [L1 EXCEPT !.leaderCalls[task.idx] = DoneCall]
                 [] OTHER -> SetTask(L1, task, "done", << >>))
    /\ lastClaim' = IF task.kind = "leader" THEN c ELSE lastClaim
    /\ UNCHANGED << presents, published, Others >>

(* refreshState 113-116: getTextObject rejected or JSON.parse threw *)
fetchRejected(L) ==
    [L EXCEPT !.storagePollingState = "failed", !.lastRead = "failed"]

(* task's read failed: the store call was rejected, which may happen at    *)
(* any time, or the payload did not parse.  refreshState returns normally  *)
(* and the task runs on to its setObject.                                  *)
FetchFail(c, task, cap) ==
    /\ Running(c)
    /\ task \in Tasks(Local(c))
    /\ TaskPc(Local(c), task) = "fetching"
    /\ CommitBounded(c, afterRefresh(c, fetchNext(fetchRejected(Local(c))), task, now), cap)
    /\ published' = [published EXCEPT ![c] = @ \cup Handed(c, TaskData(Local(c)', task))]
    /\ UNCHANGED << store, presents, lastClaim, Others >>

(* A write whose error is swallowed: the caller goes on as after a success *)
writeRejectedSwallowed(L, task) ==
    LET L1 == [L EXCEPT !.storageWriteState = "failed"]
    IN  CASE task.kind = "poll" -> SetTask(L1, task, "sleep", << >>)
          [] task.kind = "leader" -> [L1 EXCEPT !.leaderCalls[task.idx] = DoneCall]
          [] OTHER -> SetTask(L1, task, "done", << >>)

(* writeSharedState 151-154: setObject rejected.  The error is rethrown to *)
(* the caller, none of which catches it: the polling loop (123) ends with  *)
(* a rejected promise, and so do addClientsForLeader (434) and the         *)
(* onicecandidate handler (378), whose last step the write was.            *)
writeRejected(L, task) ==
    LET L1 == [L EXCEPT !.storageWriteState = "failed"]
    IN  CASE task.kind = "poll" -> SetTask(L1, task, "rejected", << >>)
          [] task.kind = "leader" ->
                [L1 EXCEPT !.leaderCalls[task.idx] = [DoneCall EXCEPT !.pc = "rejected"]]
          [] OTHER -> SetTask(L1, task, "rejected", << >>)

(* setObject of task's document failed; the document may have reached the *)
(* store all the same (stored) or not.                                     *)
WriteFail(c, task, stored) ==
    /\ Running(c)
    /\ task \in Tasks(Local(c))
    /\ TaskPc(Local(c), task) = "writing"
    /\ store' = IF stored THEN TaskData(Local(c), task) ELSE store
    /\ Commit(c, writeRejected(Local(c), task))
    /\ lastClaim' = IF stored /\ task.kind = "leader" THEN c ELSE lastClaim
    /\ UNCHANGED << presents, published, Others >>

(* startPresent 453-456; the button is rendered while the client is not    *)
(* the leader (472).  With nobody else in the list addClientsForLeader     *)
(* runs through to its refreshState without awaiting.                      *)
startPresent(c, cap) ==
    /\ Running(c)
    /\ getState(Local(c)).leaderClientId # c
    /\ LET L == Local(c)
           clients == SelectSeq(getState(L).clients, LAMBDA r : r.id # c)
           ids == [i \in 1..Len(clients) |-> clients[i].id]
           k == Len(L.leaderCalls) + 1
       IN  CommitBounded(c,
               IF ids # << >> THEN addClientsStart(c, L, ids, "present")
               ELSE addClientsPublish(c,
                        [L EXCEPT !.leaderCalls =
                            Append(@, [DoneCall EXCEPT !.via = "present",
                                                       !.pc = "createOffer"])],
                        k, << >>, now),
               cap)
    /\ presents' = presents + 1
    /\ UNCHANGED << store, published, lastClaim, Others >>

(* createOffer of call k's current connection resolved: 206-207, 420-423,  *)
(* then the next client's connection, or 426-433 after the last one.       *)
OfferCreated(c, k, cap) ==
    /\ Running(c)
    /\ k \in 1..Len(leaderCalls[c])
    /\ leaderCalls[c][k].pc = "createOffer"
    /\ LET L == Local(c)
           call == L.leaderCalls[k]
           offer == Sdp("offer", c, call.conn)
           offers == Append(call.offers, Envelope(offer, call.clients[call.i]))
           L1 == [L EXCEPT !.presenterConnections[call.conn].offer = offer,
                           !.leaderCalls[k].offers = offers]
           Await(L3) ==
               [L3 EXCEPT !.leaderCalls[k].i = call.i + 1,
                          !.leaderCalls[k].conn = Len(L3.presenterConnections)]
       IN  CommitBounded(c,
               IF call.i < Len(call.clients)
               THEN Await(createPresenterConnection(c, L1, call.clients[call.i + 1]))
               ELSE addClientsPublish(c, L1, k, offers, now),
               cap)
    /\ UNCHANGED << store, presents, published, lastClaim, Others >>

(* The result of a createOffer whose promise rejected *)
FailedSdp == [type |-> "failed", from |-> Undefined, conn |-> 0]

(* createOffer of call k's current connection rejected (206).  Neither     *)
(* createPresenterConnection nor the loop of addClientsForLeader (420-424) *)
(* catches it: the call ends with a rejected promise, its offers array is  *)
(* dropped and 426-434 are not reached.                                    *)
offerRejected(L, k) ==
    [L EXCEPT !.presenterConnections[L.leaderCalls[k].conn].offer = FailedSdp,
              !.leaderCalls[k] = [DoneCall EXCEPT !.pc = "rejected"]]

OfferFail(c, k) ==
    /\ Running(c)
    /\ k \in 1..Len(leaderCalls[c])
    /\ leaderCalls[c][k].pc = "createOffer"
    /\ leaderCalls[c][k].clients # << >>
    /\ Commit(c, offerRejected(Local(c), k))
    /\ UNCHANGED << store, presents, published, lastClaim, Others >>

(* The continuation of the offer watcher (411) and then candidate gathering *)
(* ending: onicecandidate with a null candidate, 367-369.                  *)
onicecandidate(c, k) ==
    /\ Running(c)
    /\ k \in 1..Len(receiverConnections[c])
    /\ receiverConnections[c][k].pc = "gathering"
    /\ Commit(c, refreshStateStart(c, Local(c), Task("answer", k)))
    /\ UNCHANGED << store, presents, published, lastClaim, Others >>

(* The name input's onChange, 466-470 *)
Rename(c, name) ==
    /\ Running(c)
    /\ Commit(c, updateClientState(c, Local(c), [clientState[c] EXCEPT !.name = name], now))
    /\ UNCHANGED << store, presents, published, lastClaim, Others >>

(* Time passes *)
Tick(d, max) ==
    /\ now + d <= max
    /\ now' = now + d
    /\ UNCHANGED << store, storageState, clientState, storagePollingState,
                    storageWriteState, connectedLeaderClientId, answeredClientIds,
                    presenterConnections, receiverConnections, activeSender, symbols,
                    senderLoops, lastSent, pollLoop, leaderCalls, fetchQueue,
                    fetchActive, viewer, received, iteration, lastRead, presents,
                    published, lastClaim,
                    cameraType, handlers >>

(* Candidate gathering of presenter connection k ends.  It starts with    *)
(* setLocalDescription (208), which createPresenterConnection does not    *)
(* await, and no handler of the connection observes its end: the browser  *)
(* completes it at a moment of its own choosing.                           *)
icegatheringcomplete(c, k) ==
    /\ k \in 1..Len(presenterConnections[c])
    /\ presenterConnections[c][k].offer.type = "offer"
    /\ ~presenterConnections[c][k].gathered
    /\ presenterConnections' = [presenterConnections EXCEPT ![c][k].gathered = TRUE]
    /\ UNCHANGED << now, store, storageState, clientState, storagePollingState,
                    storageWriteState, connectedLeaderClientId, answeredClientIds,
                    receiverConnections, activeSender, symbols, senderLoops, lastSent,
                    pollLoop, leaderCalls, fetchQueue, fetchActive, viewer, received,
                    iteration, lastRead, presents, published, lastClaim,
                    cameraType, handlers >>

(* The data channel of presenter connection k opens (171-173).  The peer   *)
(* connection connects when the answer applied to it was generated from    *)
(* its own offer.                                                          *)
AnswersOffer(answer, offer) ==
    /\ answer # NoSdp
    /\ offer # NoSdp
    /\ answer.conn \in 1..Len(receiverConnections[answer.from])
    /\ receiverConnections[answer.from][answer.conn].remote = offer

Connected(c, k) ==
    AnswersOffer(presenterConnections[c][k].answer, presenterConnections[c][k].offer)

onopen(c, k) ==
    /\ k \in 1..Len(presenterConnections[c])
    /\ ~presenterConnections[c][k].open
    /\ Connected(c, k)
    /\ presenterConnections' = [presenterConnections EXCEPT ![c][k].open = TRUE]
    /\ UNCHANGED << now, store, storageState, clientState, storagePollingState,
                    storageWriteState, connectedLeaderClientId, answeredClientIds,
                    receiverConnections, activeSender, symbols, senderLoops, lastSent,
                    pollLoop, leaderCalls, fetchQueue, fetchActive, viewer, received,
                    iteration, lastRead, presents, published, lastClaim,
                    cameraType, handlers >>

(* The user moves the camera or changes the selection in the host viewer *)
ViewerChange(c, kind) ==
    /\ Running(c)
    /\ viewer' = [viewer EXCEPT ![c][kind] = 1 - @]
    /\ UNCHANGED << now, store, storageState, clientState, storagePollingState,
                    storageWriteState, connectedLeaderClientId, answeredClientIds,
                    presenterConnections, receiverConnections, activeSender, symbols,
                    senderLoops, lastSent, pollLoop, leaderCalls, fetchQueue,
                    fetchActive, received, iteration, lastRead, presents,
                    published, lastClaim,
                    cameraType, handlers >>

MessageType(kind) == IF kind = "camera" THEN "cameraPosition" ELSE "selectionPaths"

(* broadcast 290-302 and, at the other end, dc2.onmessage 388-391: the     *)
(* peers whose channel is open get the message handed to onMessage.        *)
broadcast(c, type) ==
    [d \in Clients |->
        IF \E k \in 1..Len(presenterConnections[c]) :
               presenterConnections[c][k].open /\ presenterConnections[c][k].target = d
        THEN received[d] \cup {type} ELSE received[d]]

(* lastSent.time < performance.now() - 4000 *)
Elapsed(c, kind) ==
    /\ lastSent[c][kind] # << >>
    /\ lastSent[c][kind][1].time < now - KeepAliveMs

(* A send test that always passes *)
shouldSendAlways(last, sample, elapsed) == TRUE

(* The send test of 232-236 and 257-261; equal() is deep equality *)
shouldSend(last, sample, elapsed) ==
    last = << >> \/ last[1].value # sample \/ elapsed

(* A sender loop's sample arrived (ok) or the viewer query threw (~ok):    *)
(* 231-249 and 256-274 up to the 16 ms / 100 ms sleep.                     *)
SenderSample(c, loop, ok, elapsed) ==
    /\ loop \in senderLoops[c]
    /\ loop.pc = "sampling"
    /\ LET last == lastSent[c][loop.kind]
           sample == viewer[c][loop.kind]
           send == ok /\ shouldSend(last, sample, elapsed)
       IN  /\ lastSent' = IF send
                          THEN [lastSent EXCEPT ![c][loop.kind] =
                                   << [value |-> sample, time |-> now] >>]
                          ELSE lastSent
           /\ received' = IF send THEN broadcast(c, MessageType(loop.kind)) ELSE received
           /\ iteration' = [iteration EXCEPT ![c][loop.kind] =
                               << [sample |-> sample, ok |-> ok, sent |-> send,
                                   prev |-> last, at |-> now, sender |-> loop.sender] >>]
    /\ senderLoops' = [senderLoops EXCEPT ![c] =
                          (@ \ {loop}) \cup {[loop EXCEPT !.pc = "sleeping"]}]
    /\ UNCHANGED << now, store, storageState, clientState, storagePollingState,
                    storageWriteState, connectedLeaderClientId, answeredClientIds,
                    presenterConnections, receiverConnections, activeSender, symbols,
                    pollLoop, leaderCalls, fetchQueue, fetchActive, viewer, lastRead,
                    presents, published, lastClaim,
                    cameraType, handlers >>

(* A while test that lets a loop run on under any active token *)
SenderWakeAnyToken(c, loop) ==
    /\ loop \in senderLoops[c]
    /\ loop.pc = "sleeping"
    /\ senderLoops' = [senderLoops EXCEPT ![c] =
                          IF activeSender[c] # 0
                          THEN (@ \ {loop}) \cup {[loop EXCEPT !.pc = "sampling"]}
                          ELSE @ \ {loop}]
    /\ UNCHANGED << now, store, storageState, clientState, storagePollingState,
                    storageWriteState, connectedLeaderClientId, answeredClientIds,
                    presenterConnections, receiverConnections, activeSender, symbols,
                    lastSent, pollLoop, leaderCalls, fetchQueue, fetchActive, viewer,
                    received, iteration, lastRead, presents, published, lastClaim,
                    cameraType, handlers >>

(* The sleep of a sender loop ended: the while test of 229 and 254 *)
SenderWake(c, loop) ==
    /\ loop \in senderLoops[c]
    /\ loop.pc = "sleeping"
    /\ senderLoops' = [senderLoops EXCEPT ![c] =
                          IF activeSender[c] = loop.sender
                          THEN (@ \ {loop}) \cup {[loop EXCEPT !.pc = "sampling"]}
                          ELSE @ \ {loop}]
    /\ UNCHANGED << now, store, storageState, clientState, storagePollingState,
                    storageWriteState, connectedLeaderClientId, answeredClientIds,
                    presenterConnections, receiverConnections, activeSender, symbols,
                    lastSent, pollLoop, leaderCalls, fetchQueue, fetchActive, viewer,
                    received, iteration, lastRead, presents, published, lastClaim,
                    cameraType, handlers >>

(* The camera modes of the host viewer; switchPerspective toggles *)
CameraTypes == {"perspective", "orthographic"}

switchPerspective(type) == IF type = "perspective" THEN "orthographic" ELSE "perspective"

(* dc2.onmessage 388-391 with a cameraPosition message: onMessage is       *)
(* called and not awaited, it runs to its first await (352).               *)
onmessage(c, type, position, max) ==
    /\ Running(c)
    /\ Len(handlers[c]) < max
    /\ handlers' = [handlers EXCEPT ![c] =
                        Append(@, [type |-> type, position |-> position,
                                   pc |-> "getCurrent", switched |-> 0])]
    /\ UNCHANGED << now, store, storageState, clientState, storagePollingState,
                    storageWriteState, connectedLeaderClientId, answeredClientIds,
                    presenterConnections, receiverConnections, activeSender, symbols,
                    senderLoops, lastSent, pollLoop, leaderCalls, fetchQueue,
                    fetchActive, viewer, received, iteration, lastRead, presents,
                    published, lastClaim, cameraType >>

(* Forma.camera.getCurrent() of invocation h answered: 352-353, then       *)
(* switchPerspective (355) or move (359) is called and awaited.            *)
getCurrentDone(c, h) ==
    /\ h \in 1..Len(handlers[c])
    /\ handlers[c][h].pc = "getCurrent"
    /\ handlers' = [handlers EXCEPT ![c][h].pc =
                        IF cameraType[c] # handlers[c][h].type
                        THEN "switchPerspective" ELSE "move"]
    /\ UNCHANGED << now, store, storageState, clientState, storagePollingState,
                    storageWriteState, connectedLeaderClientId, answeredClientIds,
                    presenterConnections, receiverConnections, activeSender, symbols,
                    senderLoops, lastSent, pollLoop, leaderCalls, fetchQueue,
                    fetchActive, viewer, received, iteration, lastRead, presents,
                    published, lastClaim, cameraType >>

(* The viewer toggled its camera mode for invocation h (355); move is      *)
(* called (359).                                                           *)
switchPerspectiveDone(c, h) ==
    /\ h \in 1..Len(handlers[c])
    /\ handlers[c][h].pc = "switchPerspective"
    /\ cameraType' = [cameraType EXCEPT ![c] = switchPerspective(@)]
    /\ handlers' = [handlers EXCEPT ![c][h].pc = "move", ![c][h].switched = @ + 1]
    /\ UNCHANGED << now, store, storageState, clientState, storagePollingState,
                    storageWriteState, connectedLeaderClientId, answeredClientIds,
                    presenterConnections, receiverConnections, activeSender, symbols,
                    senderLoops, lastSent, pollLoop, leaderCalls, fetchQueue,
                    fetchActive, viewer, received, iteration, lastRead, presents,
                    published, lastClaim >>

(* The viewer moved its camera for invocation h (359-362): onMessage ends  *)
moveDone(c, h) ==
    /\ h \in 1..Len(handlers[c])
    /\ handlers[c][h].pc = "move"
    /\ viewer' = [viewer EXCEPT ![c].camera = handlers[c][h].position]
    /\ handlers' = [handlers EXCEPT ![c][h].pc = "done"]
    /\ UNCHANGED << now, store, storageState, clientState, storagePollingState,
                    storageWriteState, connectedLeaderClientId, answeredClientIds,
                    presenterConnections, receiverConnections, activeSender, symbols,
                    senderLoops, lastSent, pollLoop, leaderCalls, fetchQueue,
                    fetchActive, received, iteration, lastRead, presents,
                    published, lastClaim, cameraType >>

----------------------------------------------------------------------------
(* The state after the module has loaded in every client in R: the polling *)
(* loop has called refreshState, every effect has run once on the blank    *)
(* state.  Clients outside R never open the page.                          *)

InitClients(R, t) ==
    /\ storageState = [c \in Clients |-> << >>]
    /\ clientState = [c \in Clients |-> createClientState(c, t)]
    /\ storagePollingState = [c \in Clients |-> IF c \in R THEN "loading" ELSE "initialize"]
    /\ storageWriteState = [c \in Clients |-> "idle"]
    /\ connectedLeaderClientId = [c \in Clients |-> Undefined]
    /\ answeredClientIds = [c \in Clients |-> {}]
    /\ presenterConnections = [c \in Clients |-> << >>]
    /\ receiverConnections = [c \in Clients |-> << >>]
    /\ activeSender = [c \in Clients |-> 0]
    /\ symbols = [c \in Clients |-> 0]
    /\ senderLoops = [c \in Clients |-> {}]
    /\ lastSent = [c \in Clients |-> [camera |-> << >>, selection |-> << >>]]
    /\ pollLoop = [c \in Clients |->
                      [pc |-> IF c \in R THEN "fetching" ELSE "off", data |-> << >>]]
    /\ leaderCalls = [c \in Clients |-> << >>]
    /\ fetchQueue = [c \in Clients |-> << >>]
    /\ fetchActive = [c \in Clients |-> IF c \in R THEN 1 ELSE 0]
    /\ viewer = [c \in Clients |-> [camera |-> 0, selection |-> 0]]
    /\ received = [c \in Clients |-> {}]
    /\ iteration = [c \in Clients |-> [camera |-> << >>, selection |-> << >>]]
    /\ lastRead = [c \in Clients |-> "none"]
    /\ presents = 0
    /\ published = [c \in Clients |-> {}]
    /\ lastClaim = Undefined
    /\ cameraType = [c \in Clients |-> "perspective"]
    /\ handlers = [c \in Clients |-> << >>]

(* Two clients, an empty store, the clock at rest: the signaling exchange *)
Init ==
    /\ now = 0
    /\ store = << >>
    /\ InitClients({"a", "b"}, 0)

Next ==
    \/ \E c \in Clients : PollWake(c)
    \/ \E c \in Clients : \E task \in Tasks(Local(c)) : FetchDone(c, task, MaxConnections)
    \/ \E c \in Clients : \E task \in Tasks(Local(c)) : WriteDone(c, task)
    \/ \E c \in Clients : presents < MaxPresents /\ startPresent(c, MaxConnections)
    \/ \E c \in Clients : \E k \in 1..Len(leaderCalls[c]) : OfferCreated(c, k, MaxConnections)
    \/ \E c \in Clients : \E k \in 1..Len(receiverConnections[c]) : onicecandidate(c, k)

Spec == Init /\ [][Next]_vars

----------------------------------------------------------------------------
(* Calm timing: a store round trip takes milliseconds and the polling      *)
(* period is 5000 ms, so a polling tick or a click usually finds no store  *)
(* operation of any client under way.  The takeover scenarios are explored *)
(* under this timing only.                                                 *)

InFlight(c) ==
    \E task \in Tasks(Local(c)) :
        TaskPc(Local(c), task) \in {"fetchQueued", "fetching", "writing", "createOffer", "gathering"}

Calm == \A c \in Clients : ~InFlight(c)

MaxTakeovers == 3         \* clicks on Present in the takeover scenarios
MaxTakeoverConnections == 2

NextTakeover ==
    \/ \E c \in Clients : Calm /\ PollWake(c)
    \/ \E c \in Clients : \E task \in Tasks(Local(c)) : FetchDone(c, task, MaxTakeoverConnections)
    \/ \E c \in Clients : \E task \in Tasks(Local(c)) : WriteDone(c, task)
    \/ \E c \in Clients :
          Calm /\ presents < MaxTakeovers /\ startPresent(c, MaxTakeoverConnections)
    \/ \E c \in Clients : \E k \in 1..Len(leaderCalls[c]) : OfferCreated(c, k, MaxTakeoverConnections)
    \/ \E c \in Clients : \E k \in 1..Len(receiverConnections[c]) : onicecandidate(c, k)

SpecTakeover == Init /\ [][NextTakeover]_vars

(* C3: once a client holds a connected pair with a peer (the peer's answer *)
(* to the connection's offer has been applied to it), no step of that      *)
(* client creates another presenter connection to that peer.               *)
C3_NoSecondConnection ==
    [][\A c \in Clients, j \in 1..MaxTakeoverConnections :
          (/\ j <= Len(presenterConnections[c])
           /\ presenterConnections[c][j].answer # NoSdp
           /\ Connected(c, j))
          => \A k \in 1..Len(presenterConnections'[c]) :
                 k > Len(presenterConnections[c]) =>
                     presenterConnections'[c][k].target #
                         presenterConnections[c][j].target]_vars

(* Three clients; leadership is handed from client to client by clicks on  *)
(* Present, under the calm timing.  A click comes when the client's list   *)
(* shows both other clients.  b only follows.                              *)

MaxHandovers == 3         \* clicks on Present in the handover scenarios
MaxHandoverConnections == 4

InitTrio ==
    /\ now = 0
    /\ store = << >>
    /\ InitClients({"a", "b", "c"}, 0)

NextHandover ==
    \/ \E c \in Clients : Calm /\ PollWake(c)
    \/ \E c \in Clients : \E task \in Tasks(Local(c)) : FetchDone(c, task, MaxHandoverConnections)
    \/ \E c \in Clients : \E task \in Tasks(Local(c)) : WriteDone(c, task)
    \/ \E c \in {"a", "c"} :
          /\ Calm
          /\ presents < MaxHandovers
          /\ Len(getState(Local(c)).clients) = Cardinality(Clients)
          /\ startPresent(c, MaxHandoverConnections)
    \/ \E c \in Clients : \E k \in 1..Len(leaderCalls[c]) : OfferCreated(c, k, MaxHandoverConnections)
    \/ \E c \in Clients : \E k \in 1..Len(receiverConnections[c]) : onicecandidate(c, k)

SpecHandover == InitTrio /\ [][NextHandover]_vars

(* C2: a follower opens a receiving connection for a given offer addressed *)
(* to it at most once: no two of its receiving connections were given the  *)
(* same offer as their remote description.                                 *)
C2_OfferAppliedOnce ==
    \A c \in Clients :
        \A i, j \in 1..Len(receiverConnections[c]) :
            i # j => receiverConnections[c][i].remote # receiverConnections[c][j].remote

----------------------------------------------------------------------------
(* Three clients; a and c click Present once each while b follows.        *)
(* Heartbeats keep the calm timing.  A click comes when no store call and  *)
(* no createOffer is under way, but candidate gathering, which takes       *)
(* seconds, may be: the leader can change while a follower is gathering.   *)

MaxRelays == 2            \* clicks on Present in the relay scenarios
MaxRelayConnections == 4

Quiet ==
    \A c \in Clients : \A task \in Tasks(Local(c)) :
        TaskPc(Local(c), task) \notin {"fetchQueued", "fetching", "writing", "createOffer"}

NextRelay ==
    \/ \E c \in Clients : Calm /\ PollWake(c)
    \/ \E c \in Clients : \E task \in Tasks(Local(c)) : FetchDone(c, task, MaxRelayConnections)
    \/ \E c \in Clients : \E task \in Tasks(Local(c)) : WriteDone(c, task)
    \/ \E c \in {"a", "c"} :
          /\ Quiet
          /\ presents < MaxRelays
          /\ leaderCalls[c] = << >>
          /\ Len(getState(Local(c)).clients) = Cardinality(Clients)
          /\ startPresent(c, MaxRelayConnections)
    \/ \E c \in Clients : \E k \in 1..Len(leaderCalls[c]) : OfferCreated(c, k, MaxRelayConnections)
    \/ \E c \in Clients : \E k \in 1..Len(receiverConnections[c]) : onicecandidate(c, k)

SpecRelay == InitTrio /\ [][NextRelay]_vars

----------------------------------------------------------------------------
(* Compaction and reading, on every document the store may hold.  Client a *)
(* has just loaded; the blob was left by earlier sessions: any client list *)
(* up to MaxLen records, under the current or a legacy schema version.     *)
(* clientId is drawn afresh at each load (line 13), so no record in the    *)
(* blob is a's before a has written.                                       *)

TickMs == FreshnessMs \div 2

StoredRecords ==
    {[id |-> id, lastSeen |-> t, name |-> id, offers |-> << >>, answers |-> << >>] :
        id \in Clients \ {"a"}, t \in {0, TickMs}}

StoredLists == UNION {[1..n -> StoredRecords] : n \in 0..MaxLen}

InitCompact ==
    /\ now = 0
    /\ \E list \in StoredLists, v \in {storageSchemaVersion, LegacySchemaVersion} :
          store = << [schemaVersion |-> v, clients |-> list,
                      leaderClientId |-> Undefined] >>
    /\ InitClients({"a"}, 0)

NextCompact ==
    \/ PollWake("a")
    \/ FetchDone("a", PollTask, MaxConnections)
    \/ WriteDone("a", PollTask)
    \/ Rename("a", "guest")
    \/ Tick(TickMs, MaxTime)

SpecCompact == InitCompact /\ [][NextCompact]_vars

----------------------------------------------------------------------------
(* The sender loops of one presenting client.  The client clicks Present   *)
(* with nobody else in its list; the clock advances in half keep-alive     *)
(* periods, so that a value can be resampled before, at and after 4000 ms. *)

MaxSenderTime == 6000     \* the clock stops here in the sender scenarios

TickSender == KeepAliveMs \div 2

InitSender ==
    /\ now = 0
    /\ store = << >>
    /\ InitClients({"a"}, 0)

NextSender ==
    \/ presents < MaxPresents /\ startPresent("a", MaxConnections)
    \/ \E kind \in {"camera", "selection"} : ViewerChange("a", kind)
    \/ \E loop \in senderLoops["a"], ok \in BOOLEAN :
          SenderSample("a", loop, ok, Elapsed("a", loop.kind))
    \/ \E loop \in senderLoops["a"] : SenderWake("a", loop)
    \/ Tick(TickSender, MaxSenderTime)

SpecSender == InitSender /\ [][NextSender]_vars

(* C8: in every iteration of a sender loop a sample that differs from the  *)
(* last sent value is broadcast in that iteration, and a sample equal to   *)
(* it is broadcast only when more than 4000 ms have passed since the last  *)
(* send.                                                                   *)
C8_SendOnChangeOrKeepAlive ==
    \A c \in Clients, kind \in {"camera", "selection"} :
        iteration[c][kind] # << >> /\ iteration[c][kind][1].ok =>
            LET it == iteration[c][kind][1]
            IN  /\ it.prev = << >> => it.sent
                /\ it.prev # << >> =>
                       /\ it.sample # it.prev[1].value => it.sent
                       /\ (it.sample = it.prev[1].value /\ it.sent) =>
                              it.at - it.prev[1].time > KeepAliveMs

(* an unchanged value was sent again, as a keep-alive *)
C8_Witness ==
    \E c \in Clients, kind \in {"camera", "selection"} :
        /\ iteration[c][kind] # << >>
        /\ iteration[c][kind][1].ok
        /\ iteration[c][kind][1].prev # << >>
        /\ iteration[c][kind][1].sample = iteration[c][kind][1].prev[1].value
        /\ iteration[c][kind][1].sent

----------------------------------------------------------------------------
(* The handshake under fair scheduling.  Two clients heartbeat against a   *)
(* working store; a clicks Present once, at any moment at which b is in    *)
(* its list.  The heartbeats keep the calm timing, so only the click and   *)
(* what it sets off can overlap another client's store operation.  Every   *)
(* timer fires, every store call, createOffer and candidate gathering      *)
(* ends, a channel whose pair is connected opens, the camera query is      *)
(* answered.                                                               *)
(* The clock is not tracked: every sample is taken with the keep-alive     *)
(* period over, so the camera loop resends at every iteration.  The        *)
(* selection query stays unanswered.                                       *)

LiveClients == {"a", "b"}

LiveTasks ==
    {PollTask} \cup {Task(kind, i) : kind \in {"leader", "answer"}, i \in 1..MaxConnections}

LiveLoops ==
    [kind : {"camera"}, sender : 1..MaxSymbols, pc : {"sampling", "sleeping"}]

NextLive ==
    \/ \E c \in LiveClients : Calm /\ PollWake(c)
    \/ \E c \in LiveClients, task \in LiveTasks : FetchDone(c, task, MaxConnections)
    \/ \E c \in LiveClients, task \in LiveTasks : WriteDone(c, task)
    \/ /\ presents < MaxPresents
       /\ \E i \in 1..Len(getState(Local("a")).clients) :
              getState(Local("a")).clients[i].id = "b"
       /\ startPresent("a", MaxConnections)
    \/ \E c \in LiveClients, k \in 1..MaxConnections : OfferCreated(c, k, MaxConnections)
    \/ \E c \in LiveClients, k \in 1..MaxConnections : onicecandidate(c, k)
    \/ \E c \in LiveClients, k \in 1..MaxConnections : onopen(c, k)
    \/ \E c \in LiveClients, loop \in LiveLoops : SenderSample(c, loop, TRUE, TRUE)
    \/ \E c \in LiveClients, loop \in LiveLoops : SenderWake(c, loop)

(* task of c is waiting for the store, or for createOffer *)
Pending(c, task) ==
    /\ task \in Tasks(Local(c))
    /\ TaskPc(Local(c), task) \in {"fetching", "writing", "createOffer"}

(* The polling timer fires again and again at a calm moment, callbacks     *)
(* fire, and no store call and no createOffer stays unanswered for ever.   *)
FairLive ==
    \A c \in LiveClients :
        /\ SF_vars(Calm /\ PollWake(c))
        /\ \A task \in LiveTasks : []<>~Pending(c, task)
        /\ \A k \in 1..MaxConnections :
              /\ WF_vars(onicecandidate(c, k))
              /\ WF_vars(onopen(c, k))
        /\ \A loop \in LiveLoops :
              /\ WF_vars(SenderSample(c, loop, TRUE, TRUE))
              /\ WF_vars(SenderWake(c, loop))

SpecLive == Init /\ [][NextLive]_vars /\ FairLive

(* a has claimed leadership with a connection made for b *)
Claimed ==
    /\ isLeader("a")
    /\ \E k \in 1..Len(presenterConnections["a"]) :
          presenterConnections["a"][k].target = "b"

(* b's message handler was handed a cameraPosition message *)
Delivered == "cameraPosition" \in received["b"]

(* C1: once a has claimed leadership with b in its client list, the        *)
(* handshake runs to its end: b's message handler eventually receives a    *)
(* cameraPosition message from a's camera loop.                            *)
C1_HandshakeLive == Claimed ~> Delivered

----------------------------------------------------------------------------
(* The signaling exchange with the clock running.  Time advances in half   *)
(* freshness windows, at any moment: a heartbeat, a store call or a click  *)
(* may come after any delay, so a record can turn stale in the store and   *)
(* in a cache.  One peer detection may open several connections.           *)

MaxTimedConnections == 2  \* presenter connections one client may hold here

NextTimed ==
    \/ \E c \in Clients : Calm /\ PollWake(c)
    \/ \E c \in Clients : \E task \in Tasks(Local(c)) : FetchDone(c, task, MaxTimedConnections)
    \/ \E c \in Clients : \E task \in Tasks(Local(c)) : WriteDone(c, task)
    \/ \E c \in Clients :
          Calm /\ presents < MaxPresents /\ startPresent(c, MaxTimedConnections)
    \/ \E c \in Clients : \E k \in 1..Len(leaderCalls[c]) : OfferCreated(c, k, MaxTimedConnections)
    \/ \E c \in Clients : \E k \in 1..Len(receiverConnections[c]) : onicecandidate(c, k)
    \/ Tick(TickMs, MaxTime)

SpecTimed == Init /\ [][NextTimed]_vars

----------------------------------------------------------------------------
(* The exchange against a failing store.  Any read and any write may fail, *)
(* and the blob may hold a payload that does not parse when the clients    *)
(* load.  Heartbeats and clicks keep the calm timing and a client holds    *)
(* one presenter connection, so a client has one task under way at a time: *)
(* what happens to its cache between a call and its return is the call's   *)
(* own doing.                                                              *)

MaxFaultConnections == 1  \* presenter connections one client may hold here

InitFault ==
    /\ now = 0
    /\ store \in {<< >>, << Unparsable >>}
    /\ InitClients({"a", "b"}, 0)

NextFault ==
    \/ \E c \in Clients : Calm /\ PollWake(c)
    \/ \E c \in Clients : \E task \in Tasks(Local(c)) : FetchDone(c, task, MaxFaultConnections)
    \/ \E c \in Clients : \E task \in Tasks(Local(c)) : FetchFail(c, task, MaxFaultConnections)
    \/ \E c \in Clients : \E task \in Tasks(Local(c)) : WriteDone(c, task)
    \/ \E c \in Clients : \E task \in Tasks(Local(c)), stored \in BOOLEAN :
          WriteFail(c, task, stored)
    \/ \E c \in Clients :
          Calm /\ presents < MaxPresents /\ startPresent(c, MaxFaultConnections)
    \/ \E c \in Clients : \E k \in 1..Len(leaderCalls[c]) : OfferCreated(c, k, MaxFaultConnections)
    \/ \E c \in Clients : \E k \in 1..Len(receiverConnections[c]) : onicecandidate(c, k)

SpecFault == InitFault /\ [][NextFault]_vars

----------------------------------------------------------------------------
(* Two clients race for leadership: each clicks Present once, at any       *)
(* moment, so the two claims (read, modify, write) interleave with each    *)
(* other and with the heartbeats under way.  Heartbeats start at calm      *)
(* moments.                                                                *)

MaxRaces == 2             \* clicks on Present in the race

NextRace ==
    \/ \E c \in Clients : Calm /\ PollWake(c)
    \/ \E c \in Clients : \E task \in Tasks(Local(c)) : FetchDone(c, task, MaxConnections)
    \/ \E c \in Clients : \E task \in Tasks(Local(c)) : WriteDone(c, task)
    \/ \E c \in Clients :
          presents < MaxRaces /\ leaderCalls[c] = << >> /\ startPresent(c, MaxConnections)
    \/ \E c \in Clients : \E k \in 1..Len(leaderCalls[c]) : OfferCreated(c, k, MaxConnections)
    \/ \E c \in Clients : \E k \in 1..Len(receiverConnections[c]) : onicecandidate(c, k)

SpecRace == Init /\ [][NextRace]_vars

(* c has called addClientsForLeader and none of its calls is under way *)
ClaimDone(c) ==
    /\ leaderCalls[c] # << >>
    /\ \A k \in 1..Len(leaderCalls[c]) : leaderCalls[c][k].pc = "done"

(* C15: when both clients have claimed leadership and both claim writes    *)
(* have completed, the store's leaderClientId is the id of the client      *)
(* whose claim was stored later.                                           *)
C15_LaterClaimWins ==
    (ClaimDone("a") /\ ClaimDone("b")) =>
        store # << >> /\ store[1].leaderClientId = lastClaim

----------------------------------------------------------------------------
(* Properties of the signaling exchange, checked under Spec *)

EffectCalls(calls) == {i \in 1..Len(calls) : calls[i].via = "effect" /\ calls[i].i = 1}

Fetching(c) == {task \in Tasks(Local(c)) : TaskPc(Local(c), task) = "fetching"}

(* C10: at most one getTextObject of a client is in flight at any time; a  *)
(* refreshState called meanwhile waits in the gate's queue.                *)
C10_OneFetchInFlight ==
    \A c \in Clients :
        /\ Cardinality(Fetching(c)) <= FetchLimit
        /\ fetchActive[c] = Cardinality(Fetching(c))
        /\ fetchQueue[c] # << >> => Fetching(c) # {}

(* a second refreshState waits while the first one's fetch is pending *)
C10_Witness ==
    \E c \in Clients :
        /\ Fetching(c) # {}
        /\ \E task \in Tasks(Local(c)) : TaskPc(Local(c), task) = "fetchQueued"

----------------------------------------------------------------------------
(* Properties of compaction and reading, checked under SpecCompact *)

SortedById(list) ==
    \A i, j \in 1..Len(list) : i < j => localeCompare(list[i].id, list[j].id) <= 0

DistinctIds(list) ==
    \A i, j \in 1..Len(list) : i # j => list[i].id # list[j].id

NoStaleOthers(list, c, t) ==
    \A i \in 1..Len(list) : list[i].id # c => list[i].lastSeen >= t - FreshnessMs

HasRecord(list, c) == \E i \in 1..Len(list) : list[i].id = c

(* The client's cached list was written by this step's compaction *)
Compacted(c) ==
    /\ storageState'[c] # << >>
    /\ storageState'[c] # storageState[c]

(* The poll task of c read the stored document in this step *)
ReadStored(c) ==
    /\ pollLoop[c].pc = "fetching"
    /\ pollLoop'[c].pc = "writing"
    /\ lastRead'[c] = "document"

(* C4: whatever list the store held, the list a compaction leaves in the   *)
(* cache is sorted by id, has no two records with one id, and has no       *)
(* record of another client older than the freshness window.               *)
C4_CompactionOutput ==
    [][\A c \in Clients :
          Compacted(c) =>
              /\ SortedById(getState(Local(c))'.clients)
              /\ DistinctIds(getState(Local(c))'.clients)
              /\ NoStaleOthers(getState(Local(c))'.clients, c, now)]_vars

(* C5 as stated: a read of a compacted stored list (sorted, distinct ids,  *)
(* nothing stale, own record present) leaves that very list in the cache.  *)
C5_Unchanged ==
    [][\A c \in Clients :
          (/\ ReadStored(c)
           /\ SortedById(store[1].clients) /\ DistinctIds(store[1].clients)
           /\ NoStaleOthers(store[1].clients, c, now)
           /\ HasRecord(store[1].clients, c))
          => getState(Local(c))'.clients = store[1].clients]_vars

(* C5 amended: compacting the list a compaction has just left, at the same *)
(* instant, returns it unchanged; compacting a compacted stored list       *)
(* changes nothing but the local client's record, which becomes the        *)
(* client's own state stamped now.                                         *)
C5_IdempotentButOwnRecord ==
    [][\A c \in Clients :
          /\ Compacted(c) =>
                 compactClients(c, getState(Local(c))', clientState'[c], now) =
                     getState(Local(c))'.clients
          /\ (/\ ReadStored(c)
              /\ SortedById(store[1].clients) /\ DistinctIds(store[1].clients)
              /\ NoStaleOthers(store[1].clients, c, now)
              /\ HasRecord(store[1].clients, c))
             => getState(Local(c))'.clients =
                    [i \in 1..Len(store[1].clients) |->
                        IF store[1].clients[i].id = c
                        THEN [clientState[c] EXCEPT !.lastSeen = now]
                        ELSE store[1].clients[i]]]_vars

(* a compacted stored list of several records was read and compacted, and  *)
(* the own record in it carried another stamp                              *)
C5_Witness ==
    /\ pollLoop["a"].pc = "writing"
    /\ lastRead["a"] = "document"
    /\ Len(store[1].clients) >= 2
    /\ SortedById(store[1].clients) /\ DistinctIds(store[1].clients)
    /\ NoStaleOthers(store[1].clients, "a", now)
    /\ HasRecord(store[1].clients, "a")
    /\ pollLoop["a"].data[1].clients # store[1].clients

(* C6: a read that finds a document of another schemaVersion leaves the    *)
(* client as a read that finds no blob would: the task goes on exactly as  *)
(* after a missing blob, the cache is not replaced by the payload, the     *)
(* polling status is idle, and without a cache the client sees the blank   *)
(* document.                                                               *)
C6_MismatchAsMissing ==
    [][\A c \in Clients :
          (pollLoop[c].pc = "fetching" /\ pollLoop'[c].pc = "writing"
              /\ store # << >> /\ store[1].schemaVersion # storageSchemaVersion)
          => /\ [Local(c)' EXCEPT !.lastRead = "absent"] =
                    afterRefresh(c, fetchNext(fetchResponse(c, Local(c), << >>, FALSE)),
                                 PollTask, now)
             /\ fetchResponse(c, Local(c), store, FALSE).storageState = storageState[c]
             /\ storagePollingState'[c] = "idle"
             /\ storageState[c] = << >> =>
                    getState(fetchResponse(c, Local(c), store, FALSE)) = createBlankState
             /\ \A i \in 1..Len(getState(Local(c))'.clients) :
                    getState(Local(c))'.clients[i].id = c]_vars

(* a document of the legacy version with records in it was read, once with *)
(* a cache already there (made by a rename) and the payload left out of it *)
C6_Witness ==
    /\ lastRead["a"] = "mismatch"
    /\ pollLoop["a"].pc = "writing"
    /\ store[1].schemaVersion = LegacySchemaVersion
    /\ Len(store[1].clients) > 0
    /\ clientState["a"].name = "guest"
    /\ Len(getState(Local("a")).clients) = 1

(* C7: a record of another client older than the freshness window is in no *)
(* list a compaction leaves in the cache and in no document the client     *)
(* hands to setObject, whatever the store holds.                           *)
C7_StaleAgedOut ==
    [][\A c \in Clients :
          /\ Compacted(c) =>
                 \A i \in 1..Len(getState(Local(c))'.clients) :
                     \/ getState(Local(c))'.clients[i].id = c
                     \/ getState(Local(c))'.clients[i].lastSeen >= now - FreshnessMs
          /\ (pollLoop[c].pc = "fetching" /\ pollLoop'[c].pc = "writing") =>
                 \A i \in 1..Len(pollLoop'[c].data[1].clients) :
                     \/ pollLoop'[c].data[1].clients[i].id = c
                     \/ pollLoop'[c].data[1].clients[i].lastSeen >= now - FreshnessMs]_vars

(* the store holds the record of a peer that stopped heartbeating more     *)
(* than 20 s ago, and the document the client is writing leaves it out     *)
C7_Witness ==
    /\ pollLoop["a"].pc = "writing"
    /\ lastRead["a"] = "document"
    /\ \E i \in 1..Len(store[1].clients) :
          /\ store[1].clients[i].id = "b"
          /\ store[1].clients[i].lastSeen < now - FreshnessMs
    /\ \A i \in 1..Len(pollLoop["a"].data[1].clients) :
          pollLoop["a"].data[1].clients[i].id # "b"

----------------------------------------------------------------------------
(* Properties of the documents handed to setObject, checked under SpecTimed *)

(* task of c reaches its setObject call in this step *)
StartsWrite(c, task) ==
    /\ task \in Tasks(Local(c))
    /\ TaskPc(Local(c), task) # "writing"
    /\ TaskPc(Local(c)', task) = "writing"

(* C11: every document a client hands to setObject holds exactly one       *)
(* record with the client's own id, and that record's lastSeen is the time *)
(* of the step that makes the call.                                        *)
C11_OwnRecordStamped ==
    [][\A c \in Clients : \A task \in Tasks(Local(c)) :
          StartsWrite(c, task) =>
              LET own == OwnRecords(c, TaskData(Local(c)', task)[1])
              IN  Len(own) = 1 /\ own[1].lastSeen = now']_vars

(* a client is writing a document stamped now while the store still holds  *)
(* its record with the stamp of an earlier write                           *)
C11_Witness ==
    \E c \in Clients :
        /\ pollLoop[c].pc = "writing"
        /\ now > 0
        /\ OwnRecords(c, pollLoop[c].data[1])[1].lastSeen = now
        /\ store # << >>
        /\ \E i \in 1..Len(store[1].clients) :
              store[1].clients[i].id = c /\ store[1].clients[i].lastSeen < now

----------------------------------------------------------------------------
(* Properties of the failure paths, checked under SpecFault *)

(* setObject of task's document fails in this step *)
FailsWrite(c, task) ==
    /\ task \in Tasks(Local(c))
    /\ TaskPc(Local(c), task) = "writing"
    /\ TaskPc(Local(c)', task) # "writing"
    /\ storageWriteState'[c] = "failed" \/ TaskPc(Local(c)', task) = "rejected"

(* C12: when setObject fails, writeSharedState leaves the write status     *)
(* failed and rethrows: the calling task ends rejected there and never     *)
(* runs a later step (the polling loop neither sleeps nor starts another   *)
(* iteration).                                                             *)
C12_WriteFailsLoud ==
    [][\A c \in Clients : \A task \in Tasks(Local(c)) :
          /\ FailsWrite(c, task) =>
                 /\ storageWriteState'[c] = "failed"
                 /\ TaskPc(Local(c)', task) = "rejected"
          /\ TaskPc(Local(c), task) = "rejected" =>
                 TaskPc(Local(c)', task) = "rejected"]_vars

(* the polling loop of a client ended on a failed write while the other    *)
(* client's loop sleeps                                                    *)
C12_Witness ==
    \E c, d \in Clients :
        /\ pollLoop[c].pc = "rejected"
        /\ storageWriteState[c] = "failed"
        /\ pollLoop[d].pc = "sleep"

(* getTextObject of task's refreshState fails in this step *)
FailsRead(c, task) ==
    /\ task \in Tasks(Local(c))
    /\ TaskPc(Local(c), task) = "fetching"
    /\ TaskPc(Local(c)', task) # "fetching"
    /\ lastRead'[c] = "failed"

(* C13: when the read of a refreshState call fails (rejected store call or *)
(* unparsable payload), the call returns normally (its caller goes on to   *)
(* its write), the polling status is failed, and the cached document is    *)
(* what it was when the call was made, for calls with an override too.     *)
C13_ReadFailsSoft ==
    [][\A c \in Clients : \A task \in Tasks(Local(c)) :
          FailsRead(c, task) =>
              /\ TaskPc(Local(c)', task) = "writing"
              /\ fetchRejected(Local(c)).storagePollingState = "failed"
              /\ fetchQueue[c] = << >> => storagePollingState'[c] = "failed"
              /\ fetchRejected(Local(c)).storageState = TaskData(Local(c), task)]_vars

----------------------------------------------------------------------------
(* The heartbeat against a failing store, under fair scheduling: the       *)
(* polling timer fires again and again at a calm moment, callbacks fire,   *)
(* and no store call and no createOffer stays unanswered for ever (it      *)
(* succeeds or fails).                                                     *)

FairFault ==
    \A c \in LiveClients :
        /\ SF_vars(Calm /\ PollWake(c))
        /\ \A task \in LiveTasks : []<>~Pending(c, task)
        /\ \A k \in 1..MaxConnections : WF_vars(onicecandidate(c, k))

SpecFaultLive == InitFault /\ [][NextFault]_vars /\ FairFault

(* the current tick of c's polling loop met a failed read or a failed write *)
TickFailed(c) ==
    \/ pollLoop[c].pc = "writing" /\ lastRead[c] = "failed"
    \/ pollLoop[c].pc = "rejected"

(* c's polling loop has started another tick *)
NextTick(c) == pollLoop[c].pc \in {"fetchQueued", "fetching"}

(* C14: no store failure stops the heartbeat: after a tick of the polling  *)
(* loop in which the read or the write failed, the loop starts its next    *)
(* tick.                                                                   *)
C14_HeartbeatSurvives ==
    \A c \in LiveClients : TickFailed(c) ~> NextTick(c)

----------------------------------------------------------------------------
(* Properties of the answers, checked under SpecHandover *)

(* c's presenter connections to peer that have had an answer applied *)
Answered(c, peer) ==
    {k \in 1..Len(presenterConnections[c]) :
        /\ presenterConnections[c][k].target = peer
        /\ presenterConnections[c][k].answer # NoSdp}

(* peer's record in the document carries an envelope with this answer for c *)
ShowsAnswer(doc, c, peer, answer) ==
    \E i \in 1..Len(doc.clients) :
        /\ doc.clients[i].id = peer
        /\ \E j \in 1..Len(doc.clients[i].answers) :
              doc.clients[i].answers[j] = Envelope(answer, c)

(* C16: for each peer a client applies an answer to at most one of its     *)
(* presenter connections and at most once (an applied answer is never      *)
(* replaced), and the answer it applies was generated by that peer and     *)
(* stands in the peer's own record of the cached document addressed to     *)
(* this client.                                                            *)
C16_AnswerAppliedOnce ==
    [][\A c \in Clients, peer \in Clients :
          /\ Cardinality(Answered(c, peer)') <= 1
          /\ \A k \in Answered(c, peer) :
                 presenterConnections'[c][k].answer = presenterConnections[c][k].answer
          /\ \A k \in Answered(c, peer)' \ Answered(c, peer) :
                 /\ presenterConnections'[c][k].answer.type = "answer"
                 /\ presenterConnections'[c][k].answer.from = peer
                 /\ ShowsAnswer(getState(Local(c))', c, peer,
                                presenterConnections'[c][k].answer)]_vars

(* a client holds two connections to one peer, one of them answered, and   *)
(* its cache, read again since, still shows that answer                    *)
C16_Witness ==
    \E c \in Clients, peer \in Clients :
        \E k, j \in 1..Len(presenterConnections[c]) :
            /\ k # j
            /\ presenterConnections[c][k].target = peer
            /\ presenterConnections[c][j].target = peer
            /\ presenterConnections[c][k].answer # NoSdp
            /\ presenterConnections[c][j].answer = NoSdp
            /\ presenterConnections[c][j].offer # NoSdp
            /\ ShowsAnswer(getState(Local(c)), c, peer, presenterConnections[c][k].answer)
            /\ pollLoop[c].pc = "sleep"

----------------------------------------------------------------------------
(* Properties of peer detection, checked under SpecTimed *)

(* a call of addClientsForLeader that includes peer is under way at c:     *)
(* awaiting createOffer, or publishing its offers                          *)
InSetup(c, peer) ==
    \E k \in 1..Len(leaderCalls[c]) :
        /\ leaderCalls[c][k].pc \in {"createOffer", "fetchQueued", "fetching", "writing"}
        /\ \E i \in 1..Len(leaderCalls[c][k].clients) : leaderCalls[c][k].clients[i] = peer

(* the presenter connections to peer that c creates in this step *)
NewConnections(c, peer) ==
    {k \in 1..Len(presenterConnections'[c]) :
        /\ k > Len(presenterConnections[c])
        /\ presenterConnections'[c][k].target = peer}

(* C17: while a call of addClientsForLeader that covers a peer is under    *)
(* way, no further presenter connection to that peer is created, whatever  *)
(* changes the cached document: a step creates at most one connection to a *)
(* peer, and none to a peer whose setup is under way.                      *)
C17_NoSetupTwice ==
    [][\A c \in Clients, peer \in Clients :
          Cardinality(NewConnections(c, peer)) <= (IF InSetup(c, peer) THEN 0 ELSE 1)]_vars

(* the document lists peer with a record inside the freshness window at t *)
FreshIn(doc, peer, t) ==
    \E i \in 1..Len(doc.clients) :
        doc.clients[i].id = peer /\ doc.clients[i].lastSeen >= t - FreshnessMs

(* C18: a client opens a presenter connection to a peer only if the peer   *)
(* is in the compacted client list at that moment: the peer has a record   *)
(* inside the 20 s freshness window in the document the client holds, or   *)
(* in the one the step reads from the store.  A stale record in the raw    *)
(* document opens no connection.                                           *)
C18_OnlyFreshPeers ==
    [][\A c \in Clients, peer \in Clients :
          NewConnections(c, peer) # {} =>
              \/ FreshIn(getState(Local(c)), peer, now)
              \/ store # << >> /\ FreshIn(store[1], peer, now)]_vars

----------------------------------------------------------------------------
(* Properties of a client's own envelopes, checked under SpecHandover *)

(* C19: a client's own offers and answers only grow: the own record of     *)
(* every document a client hands to setObject carries every offer and      *)
(* every answer envelope that its own record carried in any document it    *)
(* handed to setObject before.                                             *)
C19_EnvelopesOnlyGrow ==
    [][\A c \in Clients : \A task \in Tasks(Local(c)) :
          StartsWrite(c, task) =>
              published[c] \subseteq Handed(c, TaskData(Local(c)', task))]_vars

----------------------------------------------------------------------------
(* Properties of the answer publication, checked under SpecRelay *)

(* C20: the answer envelope a follower publishes for a receiving           *)
(* connection is addressed to the leader whose offer that connection was   *)
(* given, whatever became of leaderClientId and connectedLeaderClientId    *)
(* while its candidates were gathered.                                     *)
C20_AnswerToOfferer ==
    [][\A c \in Clients : \A k \in 1..Len(receiverConnections[c]) :
          StartsWrite(c, Task("answer", k)) =>
              clientState'[c].answers =
                  << Envelope(Sdp("answer", c, k), receiverConnections[c][k].leader) >>]_vars

----------------------------------------------------------------------------
(* The signaling exchange of Spec together with the end of candidate       *)
(* gathering on the presenter's connections.                               *)
NextGather ==
    \/ Next
    \/ \E c \in Clients : \E k \in 1..Len(presenterConnections[c]) : icegatheringcomplete(c, k)

SpecGather == Init /\ [][NextGather]_vars

(* The stored document carries the offer of presenter connection k of c *)
StoresOffer(c, k) ==
    /\ store # << >>
    /\ \E i \in 1..Len(store[1].clients) :
          /\ store[1].clients[i].id = c
          /\ \E j \in 1..Len(store[1].clients[i].offers) :
                store[1].clients[i].offers[j].value = Sdp("offer", c, k)

(* C21: the leader publishes the offer of a connection only after that     *)
(* connection's candidate gathering has completed: whenever the stored     *)
(* document carries the offer of a presenter connection, the gathering of  *)
(* that connection has already ended.                                      *)
C21_OfferAfterGathering ==
    \A c \in Clients : \A k \in 1..Len(presenterConnections[c]) :
        StoresOffer(c, k) => presenterConnections[c][k].gathered

----------------------------------------------------------------------------
(* Three clients, one click on Present, and createOffer may fail *)
NextSetup ==
    \/ \E c \in Clients : Calm /\ PollWake(c)
    \/ \E c \in Clients : \E task \in Tasks(Local(c)) : FetchDone(c, task, MaxConnections)
    \/ \E c \in Clients : \E task \in Tasks(Local(c)) : WriteDone(c, task)
    \/ \E c \in Clients :
          /\ Calm
          /\ presents < MaxPresents
          /\ Len(getState(Local(c)).clients) = Cardinality(Clients)
          /\ startPresent(c, MaxConnections)
    \/ \E c \in Clients : \E k \in 1..Len(leaderCalls[c]) : OfferCreated(c, k, MaxConnections)
    \/ \E c \in Clients : \E k \in 1..Len(leaderCalls[c]) : OfferFail(c, k)
    \/ \E c \in Clients : \E k \in 1..Len(receiverConnections[c]) : onicecandidate(c, k)

SpecSetup == InitTrio /\ [][NextSetup]_vars

(* createOffer fails in this step for the current connection of call k *)
FailsOffer(c, k) ==
    /\ leaderCalls[c][k].pc = "createOffer"
    /\ leaderCalls[c][k].conn \in 1..Len(presenterConnections[c])
    /\ presenterConnections[c][leaderCalls[c][k].conn].offer = NoSdp
    /\ presenterConnections'[c][leaderCalls[c][k].conn].offer = FailedSdp

(* C22: per-pair failure isolation: when offer creation fails for one peer *)
(* of a call that sets up several peers, only that pair is given up: the   *)
(* call is still under way after the step, on its way to the next peer or  *)
(* to publishing, and it keeps the offers it has created for the others.   *)
C22_FailureIsolated ==
    [][\A c \in Clients : \A k \in 1..Len(leaderCalls[c]) :
          (FailsOffer(c, k) /\ Len(leaderCalls[c][k].clients) > 1)
              => /\ leaderCalls'[c][k].pc \in {"createOffer", "fetchQueued", "fetching"}
                 /\ \A i \in 1..Len(leaderCalls[c][k].offers) :
                       \E j \in 1..Len(leaderCalls'[c][k].offers) :
                           leaderCalls'[c][k].offers[j] = leaderCalls[c][k].offers[i]]_vars

----------------------------------------------------------------------------
(* The record of doc's leader holds an offer addressed to c *)
OffersTo(doc, c) ==
    \E i \in 1..Len(doc.clients) :
        /\ doc.clients[i].id = doc.leaderClientId
        /\ \E j \in 1..Len(doc.clients[i].offers) :
              doc.clients[i].offers[j].targetClientId = c

(* The receiving connections c had before the step are still there, each  *)
(* with the offer and the leader it was created for                        *)
KeepsConnections(c) ==
    /\ Len(receiverConnections'[c]) >= Len(receiverConnections[c])
    /\ \A k \in 1..Len(receiverConnections[c]) :
          /\ receiverConnections'[c][k].remote = receiverConnections[c][k].remote
          /\ receiverConnections'[c][k].leader = receiverConnections[c][k].leader

(* The documents c's cache holds in the course of a step: the cache the    *)
(* step leaves, and the stored document when a read of c is answered       *)
(* (refreshState caches it as read before the record update compacts it)   *)
WatchedDocs(c, after) ==
    {after} \cup
    (IF store # << >> /\ \E task \in Tasks(Local(c)) : TaskPc(Local(c), task) = "fetching"
     THEN {store[1]} ELSE {})

(* C23: connectedLeaderClientId changes, and a receiving connection is     *)
(* created, only in a step in which the cached document's leader record    *)
(* holds an offer addressed to the client and the leader's id differs from *)
(* the connectedLeaderClientId of before: then exactly one connection is   *)
(* added, for that leader.  A step in which the cached leaderClientId      *)
(* changes while the leader's record holds no offer for the client leaves  *)
(* connectedLeaderClientId and the receiving connections as they were.     *)
C23_WatcherFrame ==
    [][\A c \in Clients :
          /\ KeepsConnections(c)
          /\ (\/ connectedLeaderClientId'[c] # connectedLeaderClientId[c]
              \/ Len(receiverConnections'[c]) # Len(receiverConnections[c]))
                => /\ \E doc \in WatchedDocs(c, getState(Local(c))') :
                         /\ OffersTo(doc, c)
                         /\ doc.leaderClientId # connectedLeaderClientId[c]
                         /\ connectedLeaderClientId'[c] = doc.leaderClientId
                   /\ Len(receiverConnections'[c]) = Len(receiverConnections[c]) + 1
                   /\ receiverConnections'[c][Len(receiverConnections'[c])].leader
                          = connectedLeaderClientId'[c]
          /\ (/\ getState(Local(c))'.leaderClientId # getState(Local(c)).leaderClientId
              /\ \A doc \in WatchedDocs(c, getState(Local(c))') : ~OffersTo(doc, c))
                => /\ connectedLeaderClientId'[c] = connectedLeaderClientId[c]
                   /\ Len(receiverConnections'[c]) = Len(receiverConnections[c])]_vars

(* A follower connected to one leader caches a document whose leader is    *)
(* another client with no offer for it, and has not followed               *)
C23_Witness ==
    \E c \in Clients :
        /\ connectedLeaderClientId[c] # Undefined
        /\ getState(Local(c)).leaderClientId \notin {Undefined, connectedLeaderClientId[c]}
        /\ ~OffersTo(getState(Local(c)), c)

----------------------------------------------------------------------------
(* Leadership lost and claimed again while the sender loops run: client a  *)
(* is alone, clicks Present up to MaxResumes times while its heartbeat may *)
(* be in flight, and the user moves the camera.  A heartbeat write that    *)
(* lands after the claim takes the leadership away again.                  *)
MaxResumes == 2           \* clicks on Present by the resuming leader

NextResume ==
    \/ Calm /\ PollWake("a")
    \/ \E task \in Tasks(Local("a")) : FetchDone("a", task, MaxConnections)
    \/ \E task \in Tasks(Local("a")) : WriteDone("a", task)
    \/ /\ presents < MaxResumes
       /\ \A k \in 1..Len(leaderCalls["a"]) : leaderCalls["a"][k].pc = "done"
       /\ startPresent("a", MaxConnections)
    \/ ViewerChange("a", "camera")
    \/ \E loop \in senderLoops["a"], elapsed \in BOOLEAN :
          SenderSample("a", loop, TRUE, elapsed)
    \/ \E loop \in senderLoops["a"] : SenderWake("a", loop)

SpecResume == InitSender /\ [][NextResume]_vars

(* loop was started with a token that is no longer the active one *)
Stale(c, loop) == loop \in senderLoops[c] /\ loop.sender # activeSender[c]

Asleep(loop) == [loop EXCEPT !.pc = "sleeping"]

Sampling(loop) == [loop EXCEPT !.pc = "sampling"]

(* C24: after the active sender token is cleared or replaced, a loop that  *)
(* was started with the old token broadcasts at most one more message and  *)
(* then ends.  A message goes out only where a loop that awaits its sample *)
(* goes to sleep; a loop with an old token that sleeps never samples       *)
(* again, it is gone after its wake-up; and a token that has been replaced *)
(* never becomes the active one again, so that a loop with an old token    *)
(* stays so when the client leads again under a new token.                 *)
C24_OldLoopsEnd ==
    [][\A c \in Clients :
          /\ \A kind \in {"camera", "selection"} :
                lastSent'[c][kind] # lastSent[c][kind] \/ iteration'[c][kind] # iteration[c][kind]
                  => \E loop \in senderLoops[c] :
                        /\ loop.kind = kind
                        /\ loop.pc = "sampling"
                        /\ senderLoops'[c] = (senderLoops[c] \ {loop}) \cup {Asleep(loop)}
          /\ \A loop \in senderLoops[c] :
                Stale(c, loop) =>
                    /\ loop.sender # activeSender'[c]
                    /\ loop.pc = "sleeping" => Sampling(loop) \notin senderLoops'[c]
                    /\ loop \notin senderLoops'[c] =>
                          IF loop.pc = "sampling" THEN Asleep(loop) \in senderLoops'[c]
                          ELSE \A other \in senderLoops'[c] :
                                  ~(other.kind = loop.kind /\ other.sender = loop.sender)]_vars

(* a loop started with the first token is still there while the client     *)
(* leads again under a second token                                        *)
C24_Witness ==
    \E c \in Clients : \E loop \in senderLoops[c] :
        activeSender[c] # 0 /\ loop.sender # activeSender[c]

(* the loops among loops that were started with token *)
LoopsOf(loops, token, kind) ==
    {loop \in loops : loop.sender = token /\ loop.kind = kind}

(* C25: after every step the sender token is set exactly when the cached   *)
(* leaderClientId is the client's id; a token is minted only when none is  *)
(* active, it is a new one, and a camera loop and a selection loop are     *)
(* started with it together; loops are started at no other time; and at    *)
(* most one camera loop and one selection loop hold the active token.      *)
C25_RoleEffect ==
    [][\A c \in Clients :
          /\ (activeSender'[c] # 0) <=> (getState(Local(c))'.leaderClientId = c)
          /\ symbols'[c] # symbols[c] =>
                /\ activeSender[c] = 0
                /\ symbols'[c] = symbols[c] + 1
                /\ activeSender'[c] = symbols'[c]
                /\ \A kind \in {"camera", "selection"} :
                      /\ LoopsOf(senderLoops[c], symbols'[c], kind) = {}
                      /\ LoopsOf(senderLoops'[c], symbols'[c], kind) =
                            {[kind |-> kind, sender |-> symbols'[c], pc |-> "sampling"]}
          /\ symbols'[c] = symbols[c] =>
                /\ activeSender'[c] \in {0, activeSender[c]}
                /\ \A loop \in senderLoops'[c] :
                      \E old \in senderLoops[c] :
                          old.kind = loop.kind /\ old.sender = loop.sender
          /\ \A kind \in {"camera", "selection"} :
                activeSender'[c] # 0 => Cardinality(LoopsOf(senderLoops'[c], activeSender'[c], kind)) <= 1]_vars

(* the client has minted its second token and both loops run with it *)
C25_Witness ==
    \E c \in Clients :
        /\ activeSender[c] >= 2
        /\ \A kind \in {"camera", "selection"} : LoopsOf(senderLoops[c], activeSender[c], kind) # {}

----------------------------------------------------------------------------
(* Every addClientsForLeader call made so far has ended with its write *)
NoClaimUnderWay ==
    \A c \in Clients : \A k \in 1..Len(leaderCalls[c]) : leaderCalls[c][k].pc = "done"

(* C27: heartbeats never change leadership.  When the last leadership      *)
(* claim to commit was that of client A and no claim is under way, so that *)
(* none was started after it, the stored leaderClientId is A, whatever     *)
(* heartbeat reads and writes of A and of the others have happened since.  *)
C27_HeartbeatsKeepLeader ==
    (lastClaim # Undefined /\ NoClaimUnderWay)
        => (store # << >> /\ store[1].leaderClientId = lastClaim)

----------------------------------------------------------------------------
(* C28: whenever the leader has applied an answer of peer P to a presenter *)
(* connection, that answer was generated from the offer of this very       *)
(* connection, also when the leader holds several connections to P.        *)
C28_AnswerOnItsConnection ==
    \A c \in Clients : \A k \in 1..Len(presenterConnections[c]) :
        presenterConnections[c][k].answer # NoSdp => Connected(c, k)

----------------------------------------------------------------------------
(* The signaling exchange of Spec under fair scheduling: every polling     *)
(* timer fires again, no store call and no createOffer stays unanswered    *)
(* for ever, and candidate gathering ends.  The heartbeats of the clients  *)
(* overlap in any way.                                                     *)
FairPolling ==
    \A c \in LiveClients :
        /\ WF_vars(PollWake(c))
        /\ \A task \in LiveTasks : []<>~Pending(c, task)
        /\ \A k \in 1..MaxConnections : WF_vars(onicecandidate(c, k))

SpecPolling == Init /\ [][Next]_vars /\ FairPolling

(* follower f holds receiving connection k: createAnswer has produced its  *)
(* answer                                                                  *)
Generated(f, k) == k \in 1..Len(receiverConnections[f])

(* the cache of the leader that connection k of f answers shows f's record *)
(* with the answer of that connection addressed to the leader              *)
LeaderReadAnswer(f, k) ==
    /\ Generated(f, k)
    /\ ShowsAnswer(getState(Local(receiverConnections[f][k].leader)),
                   receiverConnections[f][k].leader, f, Sdp("answer", f, k))

(* C29: a follower's answer is not lost to a concurrent overwrite: once a  *)
(* follower has generated an answer, the leader it answers eventually has  *)
(* read a document that carries this answer, also when a write based on an *)
(* older read has replaced the document that first carried it.             *)
C29_AnswerReachesLeader ==
    \A f \in LiveClients : \A k \in 1..MaxConnections :
        Generated(f, k) ~> LeaderReadAnswer(f, k)

----------------------------------------------------------------------------
(* The handover scenario under fair polling and a working store *)
HandoverTasks ==
    {PollTask} \cup {Task(kind, i) : kind \in {"leader", "answer"},
                                     i \in 1..MaxHandoverConnections}

FairHandover ==
    \A c \in Clients :
        /\ SF_vars(Calm /\ PollWake(c))
        /\ \A task \in HandoverTasks : []<>~Pending(c, task)
        /\ \A k \in 1..MaxHandoverConnections : WF_vars(onicecandidate(c, k))

SpecHandoverLive == InitTrio /\ [][NextHandover]_vars /\ FairHandover

(* f has published the answer of its receiving connection k, and the       *)
(* leader it answers is one f has followed before: a leader that lost the  *)
(* role and claimed it again                                               *)
AnsweredAgain(f, k) ==
    /\ k \in 1..Len(receiverConnections[f])
    /\ receiverConnections[f][k].pc = "done"
    /\ \E j \in 1..(k - 1) :
          receiverConnections[f][j].leader = receiverConnections[f][k].leader

(* the leader has applied that answer to a connection with the offer that  *)
(* f answered                                                              *)
AppliedByLeader(f, k) ==
    /\ k \in 1..Len(receiverConnections[f])
    /\ \E j \in 1..Len(presenterConnections[receiverConnections[f][k].leader]) :
          /\ presenterConnections[receiverConnections[f][k].leader][j].answer
                 = Sdp("answer", f, k)
          /\ presenterConnections[receiverConnections[f][k].leader][j].offer
                 = receiverConnections[f][k].remote

(* C26: a client that lost leadership to another client and claimed it     *)
(* again re-establishes its pairs: the answer a follower publishes to the  *)
(* regained leader is eventually applied by that leader to a connection    *)
(* whose offer the follower answered.                                      *)
C26_RegainedLeaderPairs ==
    \A f \in Clients : \A k \in 1..MaxHandoverConnections :
        AnsweredAgain(f, k) ~> AppliedByLeader(f, k)

----------------------------------------------------------------------------
(* A follower's message handler: cameraPosition messages of either mode    *)
(* arrive on the data channel at any time, up to MaxMessages of them, and  *)
(* the viewer answers the calls of their handlers in any order.            *)
MaxMessages == 2          \* cameraPosition messages delivered to the follower

NextViewer ==
    \/ \E type \in CameraTypes, position \in {0, 1} : onmessage("b", type, position, MaxMessages)
    \/ \E h \in 1..Len(handlers["b"]) : getCurrentDone("b", h)
    \/ \E h \in 1..Len(handlers["b"]) : switchPerspectiveDone("b", h)
    \/ \E h \in 1..Len(handlers["b"]) : moveDone("b", h)

SpecViewer == Init /\ [][NextViewer]_vars

(* C30: for every cameraPosition message the follower handles, the         *)
(* perspective switch, if any, comes before the move and happens at most   *)
(* once, and in the step that completes the handling the viewer's camera   *)
(* mode is the mode of the message, also when the handling of several      *)
(* messages interleaves.                                                   *)
C30_ModeFollowsMessage ==
    [][\A c \in Clients : \A h \in 1..Len(handlers[c]) :
          /\ handlers'[c][h].switched <= 1
          /\ handlers'[c][h].switched # handlers[c][h].switched =>
                handlers[c][h].pc = "switchPerspective" /\ handlers'[c][h].pc = "move"
          /\ (handlers[c][h].pc = "move" /\ handlers'[c][h].pc = "done") =>
                cameraType'[c] = handlers[c][h].type]_vars

====
